---- MODULE Spec2Model ----
(***************************************************************************)
(* SnapNFind: the offline index builder                                    *)
(* (backend/precompute_embeddings_images.py) and the /match endpoint       *)
(* (backend/main.py) as one state machine.                                 *)
(*                                                                         *)
(* Conventions of the model                                                *)
(*  - positions are 1-based here and 0-based in the Python code;           *)
(*  - a float is an integer in hundredths for similarities (1.0 is 100)    *)
(*    and a record [k, v] for prices, k = "num" or k = "nan", so that the  *)
(*    IEEE comparisons with NaN are the ones Python makes;                 *)
(*  - a price string is a sequence of characters, a file name is a token;  *)
(*  - the embedding model is a table from image content to a vector of     *)
(*    two integers.                                                        *)
(***************************************************************************)
EXTENDS Integers, Sequences, FiniteSets, TLC

\* ------------------------------------------------------------------ bounds
MaxProducts == 2
MaxImages == 3
MaxTopK == 2

\* ------------------------------------------------------------ Python values
None == [k |-> "none", v |-> 0]
NaN == [k |-> "nan", v |-> 0]
Num(n) == [k |-> "num", v |-> n]

\* a < b and a > b on Python floats: every comparison with NaN is False
FloatLt(a, b) == a.k = "num" /\ b.k = "num" /\ a.v < b.v
FloatGt(a, b) == a.k = "num" /\ b.k = "num" /\ a.v > b.v

\* ------------------------------------------------------------------ vectors
ZeroVec == <<0, 0>>
Dot(u, v) == u[1] * v[1] + u[2] * v[2]

RECURSIVE SqrtBetween(_, _, _)
SqrtBetween(n, lo, hi) ==
    IF lo >= hi THEN lo
    ELSE LET mid == (lo + hi + 1) \div 2
         IN IF mid * mid <= n THEN SqrtBetween(n, mid, hi)
                              ELSE SqrtBetween(n, lo, mid - 1)
\* floor of the square root
ISqrt(n) == SqrtBetween(n, 0, n)

\* np.linalg.norm
Norm(v) == ISqrt(Dot(v, v))

\* round to nearest, as a float division followed by a fixed-point store
RoundDiv(a, b) == (2 * a + b) \div (2 * b)

\* v / (norm(v) + 1e-10): a unit vector in hundredths, the zero vector stays zero
Normalize(v) ==
    IF Norm(v) = 0 THEN ZeroVec
    ELSE <<RoundDiv(100 * v[1], Norm(v)), RoundDiv(100 * v[2], Norm(v))>>

\* sklearn cosine_similarity of two rows, in hundredths: both rows are
\* normalised (a zero row stays zero) and multiplied
CosSim(u, v) == RoundDiv(Dot(Normalize(u), Normalize(v)), 100)

RECURSIVE VecSum(_)
VecSum(vs) ==
    IF vs = <<>> THEN ZeroVec
    ELSE LET r == VecSum(Tail(vs)) IN <<vs[1][1] + r[1], vs[1][2] + r[2]>>

\* np.mean(np.stack(vs), axis=0)
VecMean(vs) ==
    LET s == VecSum(vs) IN <<RoundDiv(s[1], Len(vs)), RoundDiv(s[2], Len(vs))>>

\* ------------------------------------------- the files of data/products
\* what os.path.exists says of a file name
FilesOnDisk == {"a.jpg", "b.jpg", "bad.jpg"}
\* the files PIL opens and the model encodes; "bad.jpg" exists and is corrupt
Decodable == {"a.jpg", "b.jpg"}
\* model.encode of a catalog image
ModelEncode(fname) == IF fname = "a.jpg" THEN <<12, 0>> ELSE <<0, 24>>
\* im.get("file") of an image record without the key
NoFileKey == "<None>"

\* a JSON price is a string or null
JsonNull == [k |-> "null", s |-> <<>>]
JsonStr(chars) == [k |-> "str", s |-> chars]
\* str(price)
Str(price) == IF price.k = "null" THEN <<"N", "o", "n", "e">> ELSE price.s

ImageRecord(fname, price) == [file |-> fname, price |-> price]
A100 == ImageRecord("a.jpg", JsonStr(<<"1", "0", "0">>))
B200 == ImageRecord("b.jpg", JsonStr(<<"2", "0", "0">>))
BNan == ImageRecord("b.jpg", JsonStr(<<"n", "a", "n">>))
ANull == ImageRecord("a.jpg", JsonNull)
B1200 == ImageRecord("b.jpg", JsonStr(<<"1", ",", "2", "0", "0">>))
\* a price written with the rupee sign U+20B9
ARupee == ImageRecord("a.jpg", JsonStr(<<"U+20B9", "1", "5", "0">>))
Gone == ImageRecord("gone.jpg", JsonStr(<<"1", "0", "0">>))
Bad == ImageRecord("bad.jpg", JsonStr(<<"2", "0", "0">>))
NoFile == ImageRecord(NoFileKey, JsonStr(<<"1", "0", "0">>))

\* the image records the catalogs of each specification are made of
BuildRecords == {A100, ANull, Gone, Bad, NoFile}
RankRecords == {A100, B200, Gone}
PriceRecords == {A100, B200, BNan, ANull, B1200, ARupee}

RECURSIVE SeqsOfLen(_, _)
SeqsOfLen(S, n) ==
    IF n = 0 THEN {<<>>}
    ELSE {<<x>> \o r : x \in S, r \in SeqsOfLen(S, n - 1)}

RECURSIVE CatalogsOf(_, _, _, _)
\* the catalogs of products first..last with at most budget image records in all
CatalogsOf(R, first, last, budget) ==
    IF first > last THEN {<<>>}
    ELSE UNION {
           {<<[id |-> 100 + first, images |-> imgs]>> \o rest :
               imgs \in SeqsOfLen(R, n),
               rest \in CatalogsOf(R, first + 1, last, budget - n)}
           : n \in 0..budget}

\* products.json: up to MaxProducts products, up to MaxImages image records
Catalogs(R) == UNION {CatalogsOf(R, 1, n, MaxImages) : n \in 0..MaxProducts}

\* -------------------------------------------------------------------- state
VARIABLES
    products,        \* products.json
    b_pc,            \* the builder: "loop", "done" or "crashed"
    p_idx,           \* the builder's product position
    im_pos,          \* the builder's position in products[p_idx].images
    per_prod_embs,   \* the builder's locals
    product_embs,
    image_embs,
    image_index,
    disk,            \* product_embeddings.npy, image_embeddings.npy, image_index.json
    srv,             \* the artifacts main.py loaded at import
    request,         \* the last /match request
    response         \* and what match answered

vars == <<products, b_pc, p_idx, im_pos, per_prod_embs, product_embs,
          image_embs, image_index, disk, srv, request, response>>

\* nothing written yet, nothing loaded yet
NoArtifacts ==
    [present |-> FALSE, product_embeddings |-> <<>>,
     image_embeddings |-> <<>>, image_index |-> <<>>]
NotLoaded ==
    [present |-> FALSE, products |-> <<>>, product_embeddings |-> <<>>,
     image_embeddings |-> <<>>, image_index |-> <<>>]

NoRequest ==
    [file |-> "none", image_url |-> "", top_k |-> 0, threshold |-> 0,
     price_min |-> None, price_max |-> None]
NoResponse ==
    [status |-> 0, query_matches |-> <<>>, embedded |-> FALSE,
     scored |-> FALSE, considered |-> {}]

InitWith(R) ==
    /\ products \in Catalogs(R)
    /\ b_pc = "loop"
    /\ p_idx = 1
    /\ im_pos = 1
    /\ per_prod_embs = <<>>
    /\ product_embs = <<>>
    /\ image_embs = <<>>
    /\ image_index = <<>>
    /\ disk = NoArtifacts
    /\ srv = NotLoaded
    /\ request = NoRequest
    /\ response = NoResponse

\* ------------------------------------- precompute_embeddings_images.py
\* compute_img_emb: Image.open(...).convert("RGB") raises on a corrupt file
compute_img_emb(fname) ==
    IF fname \in Decodable THEN [ok |-> TRUE, emb |-> ModelEncode(fname)]
    ELSE [ok |-> FALSE, emb |-> ZeroVec]

\* ImageUsable with the two tests left out
ImageUsableMutant(fname) == TRUE

\* the two tests that let an image in: the file exists and it encodes
ImageUsable(fname) == fname \in FilesOnDisk /\ compute_img_emb(fname).ok

\* IndexEntry with the position counted from one past the product's
IndexEntryMutant(p, fname, price) ==
    [product_idx |-> p + 1, file |-> fname, price |-> Str(price)]

\* the entry appended to image_index
IndexEntry(p, fname, price) ==
    [product_idx |-> p, file |-> fname, price |-> Str(price)]

\* one pass of the inner loop `for im in imgs`, on an image record that is
\* a dict
ProcessImage ==
    /\ b_pc = "loop"
    /\ p_idx <= Len(products)
    /\ im_pos <= Len(products[p_idx].images)
    /\ LET im == products[p_idx].images[im_pos]
           fname == im.file
           price == im.price
       IN IF fname = NoFileKey
          THEN \* os.path.join(DATA_DIR, None) raises TypeError outside the try
               /\ b_pc' = "crashed"
               /\ UNCHANGED <<im_pos, per_prod_embs, image_embs, image_index>>
          ELSE IF ~ImageUsable(fname)
          THEN \* missing or failed: warn and continue
               /\ im_pos' = im_pos + 1
               /\ UNCHANGED <<b_pc, per_prod_embs, image_embs, image_index>>
          ELSE /\ per_prod_embs' = Append(per_prod_embs, compute_img_emb(fname).emb)
               /\ image_embs' = Append(image_embs, compute_img_emb(fname).emb)
               /\ image_index' = Append(image_index, IndexEntry(p_idx, fname, price))
               /\ im_pos' = im_pos + 1
               /\ UNCHANGED b_pc
    /\ UNCHANGED <<products, p_idx, product_embs, disk, srv, request, response>>

\* the row the builder appends to product_embs after a product's images
ProductEmbedding(embs) ==
    IF Len(embs) = 0 THEN ZeroVec ELSE Normalize(VecMean(embs))

\* the end of one pass of the outer loop `for p_idx, prod in enumerate(products)`
FinishProduct ==
    /\ b_pc = "loop"
    /\ p_idx <= Len(products)
    /\ im_pos > Len(products[p_idx].images)
    /\ product_embs' = Append(product_embs, ProductEmbedding(per_prod_embs))
    /\ per_prod_embs' = <<>>
    /\ p_idx' = p_idx + 1
    /\ im_pos' = 1
    /\ UNCHANGED <<products, b_pc, image_embs, image_index, disk, srv,
                   request, response>>

\* np.stack and the three writes; np.stack of an empty list raises ValueError
Save ==
    /\ b_pc = "loop"
    /\ p_idx > Len(products)
    /\ IF product_embs = <<>>
       THEN /\ b_pc' = "crashed"
            /\ UNCHANGED disk
       ELSE /\ b_pc' = "done"
            /\ disk' = [present |-> TRUE,
                        product_embeddings |-> product_embs,
                        image_embeddings |-> image_embs,
                        image_index |-> image_index]
    /\ UNCHANGED <<products, p_idx, im_pos, per_prod_embs, product_embs,
                   image_embs, image_index, srv, request, response>>

NextBuild == ProcessImage \/ FinishProduct \/ Save

InitBuild == InitWith(BuildRecords)
SpecBuild == InitBuild /\ [][NextBuild]_vars

\* ----------------------------------------------------------------- main.py
\* the module-level load: it raises RuntimeError unless every artifact exists
Load ==
    /\ disk.present
    /\ ~srv.present
    /\ srv' = [present |-> TRUE,
               products |-> products,
               product_embeddings |-> disk.product_embeddings,
               image_embeddings |-> disk.image_embeddings,
               image_index |-> disk.image_index]
    /\ UNCHANGED <<products, b_pc, p_idx, im_pos, per_prod_embs, product_embs,
                   image_embs, image_index, disk, request, response>>

RECURSIVE RemoveAll(_, _)
\* str.replace(pat, "")
RemoveAll(chars, pat) ==
    IF chars = <<>> THEN <<>>
    ELSE IF Len(chars) >= Len(pat) /\ SubSeq(chars, 1, Len(pat)) = pat
         THEN RemoveAll(SubSeq(chars, Len(pat) + 1, Len(chars)), pat)
         ELSE <<chars[1]>> \o RemoveAll(Tail(chars), pat)

Digits == <<"0", "1", "2", "3", "4", "5", "6", "7", "8", "9">>
DigitValue(c) == (CHOOSE i \in DOMAIN Digits : Digits[i] = c) - 1

RECURSIVE DecimalValue(_)
DecimalValue(chars) ==
    IF chars = <<>> THEN 0
    ELSE 10 * DecimalValue(SubSeq(chars, 1, Len(chars) - 1))
         + DigitValue(chars[Len(chars)])

\* float(s) on the strings of the model: a run of digits is a number, "nan"
\* is the NaN, anything else raises ValueError (ok = FALSE)
PyFloat(chars) ==
    IF chars # <<>> /\ \A i \in DOMAIN chars : chars[i] \in {Digits[d] : d \in DOMAIN Digits}
    THEN [ok |-> TRUE, val |-> Num(DecimalValue(chars))]
    ELSE IF chars = <<"n", "a", "n">>
    THEN [ok |-> TRUE, val |-> NaN]
    ELSE [ok |-> FALSE, val |-> None]

\* the three characters the source strips, U+00E2 U+201A U+00B9
CurrencyGlyph == <<"U+00E2", "U+201A", "U+00B9">>

safe_float(x) ==
    LET parsed == PyFloat(RemoveAll(RemoveAll(x, CurrencyGlyph), <<",">>))
    IN IF parsed.ok THEN parsed.val ELSE None

\* what the request carries as file, and what requests.get finds at image_url
NoUpload == "none"
EmptyUpload == "empty"
Download(url) ==
    IF url = "http://dead" THEN [ok |-> FALSE, content |-> "empty"]
    ELSE IF url = "http://blank" THEN [ok |-> TRUE, content |-> "empty"]
    ELSE [ok |-> TRUE, content |-> "qa"]

\* pil_open_and_normalize and model.encode of the query bytes
QueryDecodes(content) == content \in {"qa", "qz"}
QueryEncode(content) == IF content = "qa" THEN <<12, 6>> ELSE <<-12, 0>>
img_to_embedding(content) == Normalize(QueryEncode(content))

\* step 1 of match: the bytes, or the 400
ObtainBytes(req) ==
    IF req.file # NoUpload
    THEN IF req.file = EmptyUpload
         THEN [ok |-> FALSE, content |-> "empty"]
         ELSE [ok |-> TRUE, content |-> req.file]
    ELSE IF req.image_url # ""
    THEN IF Download(req.image_url).ok /\ Download(req.image_url).content # "empty"
         THEN [ok |-> TRUE, content |-> Download(req.image_url).content]
         ELSE [ok |-> FALSE, content |-> "empty"]
    ELSE [ok |-> FALSE, content |-> "empty"]

\* cosine_similarity(q_emb, product_embeddings)[0]
Sims(q_emb, product_embeddings) ==
    [p \in DOMAIN product_embeddings |-> CosSim(q_emb, product_embeddings[p])]

\* what sims.argsort() may return: the default kind is not stable, so any
\* order of the positions that is ascending in sims
Argsorts(sims) ==
    {o \in [DOMAIN sims -> DOMAIN sims] :
        /\ \A i, j \in DOMAIN sims : i # j => o[i] # o[j]
        /\ \A i, j \in DOMAIN sims : i < j => sims[o[i]] <= sims[o[j]]}

\* Reversed with the reversal left out
ReversedMutant(s) == s

\* [::-1]
Reversed(s) == [i \in DOMAIN s |-> s[Len(s) + 1 - i]]

RECURSIVE CandidateIdxs(_, _, _)
\* [i for i, entry in enumerate(image_index) if entry["product_idx"] == p_idx]
CandidateIdxs(index, p, i) ==
    IF i > Len(index) THEN <<>>
    ELSE (IF index[i].product_idx = p THEN <<i>> ELSE <<>>)
         \o CandidateIdxs(index, p, i + 1)

\* the image-level price filter: TRUE when the image is skipped
PriceFiltered(p_price, price_min, price_max) ==
    \/ price_min # None /\ p_price # None /\ FloatLt(p_price, price_min)
    \/ price_max # None /\ p_price # None /\ FloatGt(p_price, price_max)

\* the image-level similarity, the product's score when the row is missing
ImageSim(art, q_emb, img_idx, prod_score) ==
    IF img_idx \in DOMAIN art.image_embeddings
    THEN CosSim(q_emb, art.image_embeddings[img_idx])
    ELSE prod_score

RECURSIVE ImageEntries(_, _, _, _, _, _)
\* the loop over candidate_idxs; file is the stored name, which
\* _image_url_out turns into the served path
ImageEntries(art, req, q_emb, prod_score, cand, j) ==
    IF j > Len(cand) THEN <<>>
    ELSE LET entry == art.image_index[cand[j]]
             p_price == safe_float(entry.price)
             rest == ImageEntries(art, req, q_emb, prod_score, cand, j + 1)
         IN IF PriceFiltered(p_price, req.price_min, req.price_max)
            THEN rest
            ELSE <<[file |-> entry.file, price |-> p_price,
                    score |-> ImageSim(art, q_emb, cand[j], prod_score)]>> \o rest

RECURSIVE InsertByScore(_, _)
InsertByScore(sorted, e) ==
    IF sorted = <<>> THEN <<e>>
    ELSE IF sorted[1].score >= e.score
         THEN <<sorted[1]>> \o InsertByScore(Tail(sorted), e)
         ELSE <<e>> \o sorted

RECURSIVE SortByScore(_)
\* list.sort(key=score, reverse=True): descending, equal scores keep their order
SortByScore(entries) ==
    IF entries = <<>> THEN <<>>
    ELSE InsertByScore(SortByScore(SubSeq(entries, 1, Len(entries) - 1)),
                       entries[Len(entries)])

RECURSIVE KnownPrices(_)
\* [i["price"] for i in image_entries if i.get("price") is not None]
KnownPrices(entries) ==
    IF entries = <<>> THEN <<>>
    ELSE (IF entries[1].price # None THEN <<entries[1].price>> ELSE <<>>)
         \o KnownPrices(Tail(entries))

RECURSIVE PyMinFrom(_, _)
PyMinFrom(cur, xs) ==
    IF xs = <<>> THEN cur
    ELSE PyMinFrom(IF FloatLt(xs[1], cur) THEN xs[1] ELSE cur, Tail(xs))
RECURSIVE PyMaxFrom(_, _)
PyMaxFrom(cur, xs) ==
    IF xs = <<>> THEN cur
    ELSE PyMaxFrom(IF FloatGt(xs[1], cur) THEN xs[1] ELSE cur, Tail(xs))
\* min(prices) if prices else None, and max: Python keeps the first item
\* until a later one compares smaller (larger)
MinPrice(prices) == IF prices = <<>> THEN None ELSE PyMinFrom(prices[1], Tail(prices))
MaxPrice(prices) == IF prices = <<>> THEN None ELSE PyMaxFrom(prices[1], Tail(prices))

\* the test that ends the loop after an append
TopKReached(results, top_k) == Len(results) >= top_k

\* BelowThreshold with the comparison turned round
BelowThresholdMutant(prod_score, threshold) == prod_score > threshold

\* the test that skips a product on its score
BelowThreshold(prod_score, threshold) == prod_score < threshold

RECURSIVE Gather(_, _, _, _, _, _, _, _)
\* step 4 of match, from position i of ranked on; considered collects the
\* products whose image entries were looked up
Gather(art, req, q_emb, sims, ranked, i, results, considered) ==
    IF i > Len(ranked) THEN [results |-> results, considered |-> considered]
    ELSE
      LET p == ranked[i]
          prod_score == sims[p]
          candidate_idxs == CandidateIdxs(art.image_index, p, 1)
          image_entries ==
              SortByScore(ImageEntries(art, req, q_emb, prod_score, candidate_idxs, 1))
          prices == KnownPrices(image_entries)
          result == [id |-> art.products[p].id,
                     score |-> prod_score,
                     min_price |-> MinPrice(prices),
                     max_price |-> MaxPrice(prices),
                     images |-> image_entries]
      IN IF BelowThreshold(prod_score, req.threshold)
         THEN Gather(art, req, q_emb, sims, ranked, i + 1, results, considered)
         ELSE IF candidate_idxs = <<>> \/ image_entries = <<>>
         THEN Gather(art, req, q_emb, sims, ranked, i + 1, results, considered \cup {p})
         ELSE IF TopKReached(Append(results, result), req.top_k)
         THEN [results |-> Append(results, result), considered |-> considered \cup {p}]
         ELSE Gather(art, req, q_emb, sims, ranked, i + 1,
                     Append(results, result), considered \cup {p})

\* ClientError caught by the handler's last except clause and answered as a 500
ClientErrorMutant ==
    [status |-> 500, query_matches |-> <<>>, embedded |-> FALSE,
     scored |-> FALSE, considered |-> {}]

\* raise HTTPException(status_code=400, ...), re-raised by except HTTPException
ClientError ==
    [status |-> 400, query_matches |-> <<>>, embedded |-> FALSE,
     scored |-> FALSE, considered |-> {}]

\* the sims of a request that reaches step 3, the empty function otherwise
RequestSims(art, req) ==
    IF ObtainBytes(req).ok /\ QueryDecodes(ObtainBytes(req).content)
    THEN Sims(img_to_embedding(ObtainBytes(req).content), art.product_embeddings)
    ELSE <<>>

\* the whole handler; order is what argsort returned
MatchResponse(art, req, order) ==
    IF ~ObtainBytes(req).ok THEN ClientError
    ELSE IF ~QueryDecodes(ObtainBytes(req).content) THEN ClientError
    ELSE LET q_emb == img_to_embedding(ObtainBytes(req).content)
             sims == Sims(q_emb, art.product_embeddings)
             g == Gather(art, req, q_emb, sims, Reversed(order), 1, <<>>, {})
         IN [status |-> 200, query_matches |-> g.results, embedded |-> TRUE,
             scored |-> TRUE, considered |-> g.considered]

\* one request is served at a time: the handler shares nothing but the
\* artifacts, which it only reads
Match(Reqs) ==
    /\ srv.present
    /\ response = NoResponse
    /\ \E req \in Reqs :
         \E order \in Argsorts(RequestSims(srv, req)) :
            /\ request' = req
            /\ response' = MatchResponse(srv, req, order)
    /\ UNCHANGED <<products, b_pc, p_idx, im_pos, per_prod_embs, product_embs,
                   image_embs, image_index, disk, srv>>

\* the answer leaves the server
Reply ==
    /\ response # NoResponse
    /\ request' = NoRequest
    /\ response' = NoResponse
    /\ UNCHANGED <<products, b_pc, p_idx, im_pos, per_prod_embs, product_embs,
                   image_embs, image_index, disk, srv>>

\* --------------------------------------------------------------- requests
Request(f, u, k, t, lo, hi) ==
    [file |-> f, image_url |-> u, top_k |-> k, threshold |-> t,
     price_min |-> lo, price_max |-> hi]

\* no upload, an empty one or a corrupt one, with and without an image_url
SourceRequests ==
    {Request(f, u, MaxTopK, 0, None, None) :
        f \in {NoUpload, EmptyUpload, "corrupt"},
        u \in {"", "http://dead", "http://blank", "http://img"}}

RankRequests ==
    {Request(f, "", k, t, lo, None) :
        f \in {"qa", "qz"}, k \in 0..MaxTopK, t \in {-100, 0, 50}, lo \in {None, Num(150)}}
    \cup SourceRequests

PriceRequests ==
    {Request("qa", "", k, 0, lo, hi) :
        k \in {1, MaxTopK}, lo \in {None, Num(150)}, hi \in {None, Num(150), Num(250)}}
    \cup SourceRequests

MatchRank == Match(RankRequests)
MatchPrice == Match(PriceRequests)

Next == ProcessImage \/ FinishProduct \/ Save \/ Load \/ MatchRank \/ Reply
Init == InitWith(RankRecords)
Spec == Init /\ [][Next]_vars

NextPrice == ProcessImage \/ FinishProduct \/ Save \/ Load \/ MatchPrice \/ Reply
InitPrice == InitWith(PriceRecords)
SpecPrice == InitPrice /\ [][NextPrice]_vars

\* ===================================================================
\* Properties
\* ===================================================================
Answered == response.status = 200
Results == response.query_matches
\* the query embedding and the product-level scores of the request in hand
QEmb == img_to_embedding(ObtainBytes(request).content)
ScoreOf(p) == CosSim(QEmb, srv.product_embeddings[p])
\* the catalog position of a returned product (ids are 100 + position)
PositionOf(r) == r.id - 100
Returned == {PositionOf(Results[i]) : i \in DOMAIN Results}
GivenMin == request.price_min # None
GivenMax == request.price_max # None

\* what the catalog and the disk say of a product, whatever the builder did
ValidImages(prod) ==
    {i \in DOMAIN prod.images :
        prod.images[i].file \in FilesOnDisk /\ prod.images[i].file \in Decodable}
ZeroValid(p) == ValidImages(products[p]) = {}

\* the products a request can return: score at or above the threshold and
\* an indexed image the price filter lets through
Eligible ==
    {p \in DOMAIN srv.product_embeddings :
        /\ ScoreOf(p) >= request.threshold
        /\ \E j \in DOMAIN srv.image_index :
              /\ srv.image_index[j].product_idx = p
              /\ ~PriceFiltered(safe_float(srv.image_index[j].price),
                                request.price_min, request.price_max)}

Smaller(a, b) == IF a <= b THEN a ELSE b

\* C1 -- top-k law: the number of products in query_matches is at most
\* top_k, for every top_k the endpoint accepts.
C1_TopKLaw == Answered => Len(Results) <= request.top_k

\* C2 -- ranking is monotonic: a product returned before another has a
\* product-level score greater than or equal to the other's.
C2_RankingMonotonic ==
    Answered =>
        \A i, j \in DOMAIN Results : i < j => Results[i].score >= Results[j].score

C2_Witness ==
    /\ Answered
    /\ Len(Results) >= 2
    /\ Results[1].score > Results[2].score
    /\ PositionOf(Results[1]) > PositionOf(Results[2])

\* C3 -- threshold law: no returned product scores below the threshold, and
\* a product that scores below it is skipped before its images are looked up.
C3_ThresholdLaw ==
    Answered =>
        /\ \A i \in DOMAIN Results :
              /\ Results[i].score = ScoreOf(PositionOf(Results[i]))
              /\ Results[i].score >= request.threshold
        /\ \A p \in DOMAIN srv.product_embeddings :
              ScoreOf(p) < request.threshold => p \notin response.considered

C3_Witness ==
    /\ Answered
    /\ Results # <<>>
    /\ \E p \in DOMAIN srv.product_embeddings :
          /\ ScoreOf(p) < request.threshold
          /\ \E j \in DOMAIN srv.image_index : srv.image_index[j].product_idx = p
          /\ p \notin response.considered

\* a <= b on floats: False when either is NaN
FloatLe(a, b) == a.k = "num" /\ b.k = "num" /\ a.v <= b.v

\* price_min <= p <= price_max, each bound only when it is given
InBounds(price) ==
    /\ GivenMin => FloatLe(request.price_min, price)
    /\ GivenMax => FloatLe(price, request.price_max)

\* C4 -- price filter law: every returned image entry has a parsed price
\* within the bounds that are given, or an unknown price (None).
C4_PriceFilterLaw ==
    Answered =>
        \A i \in DOMAIN Results :
            \A j \in DOMAIN Results[i].images :
                \/ Results[i].images[j].price = None
                \/ InBounds(Results[i].images[j].price)

RECURSIVE ExpectedIndex(_, _)
\* the index entries of products p.. of the catalog, from the catalog alone
ExpectedEntries(p) ==
    LET imgs == products[p].images
        F[i \in 0..Len(imgs)] ==
            IF i = 0 THEN <<>>
            ELSE F[i - 1] \o
                 (IF i \in ValidImages(products[p])
                  THEN <<[product_idx |-> p, file |-> imgs[i].file,
                          price |-> Str(imgs[i].price)]>>
                  ELSE <<>>)
    IN F[Len(imgs)]
ExpectedIndex(p, last) ==
    IF p > last THEN <<>> ELSE ExpectedEntries(p) \o ExpectedIndex(p + 1, last)
\* the embeddings of the images of product p that exist and decode
ExpectedEmbs(p) ==
    [j \in DOMAIN ExpectedEntries(p) |-> ModelEncode(ExpectedEntries(p)[j].file)]

\* C5 -- artifact alignment: when the builder finishes, there is one
\* product-embedding row per catalog product, one image-embedding row per
\* image_index entry (row j is the embedding of entry j's file), row p of
\* the product embeddings is made of product p's own images, and every
\* entry's product_idx is the position of the product whose record made it.
C5_ArtifactAlignment ==
    b_pc = "done" =>
        /\ disk.present
        /\ Len(disk.product_embeddings) = Len(products)
        /\ Len(disk.image_embeddings) = Len(disk.image_index)
        /\ \A j \in DOMAIN disk.image_index :
              /\ disk.image_index[j].product_idx \in DOMAIN products
              /\ disk.image_embeddings[j] = ModelEncode(disk.image_index[j].file)
        /\ disk.image_index = ExpectedIndex(1, Len(products))
        /\ \A p \in DOMAIN products :
              disk.product_embeddings[p] = ProductEmbedding(ExpectedEmbs(p))

C5_Witness ==
    /\ b_pc = "done"
    /\ Len(products) >= 2
    /\ \E i \in DOMAIN products[1].images : i \notin ValidImages(products[1])
    /\ \E j \in DOMAIN disk.image_index : disk.image_index[j].product_idx = 2
    /\ \E j \in DOMAIN disk.image_index : disk.image_index[j].product_idx = 1

\* C6 -- tie-breaking: of two returned products with equal scores the one
\* earlier in the catalog comes first, and when top_k cuts between tied
\* products the earlier one is the one kept.
C6_TieBreak ==
    Answered =>
        /\ \A i, j \in DOMAIN Results :
              (i < j /\ Results[i].score = Results[j].score)
                  => PositionOf(Results[i]) < PositionOf(Results[j])
        /\ \A p, q \in Eligible :
              (p < q /\ ScoreOf(p) = ScoreOf(q) /\ q \in Returned) => p \in Returned

\* C7 -- per-item failure is never fatal: no image record, whether its file
\* is missing, its file reference unusable or its embedding fails, aborts
\* the builder; a run that aborts never does so inside a product's images.
C7_PerItemNeverFatal == b_pc = "crashed" => p_idx > Len(products)

\* C8 -- a request with an empty upload, or with neither file nor
\* image_url, ends in a 400 with no result list, no query embedding and no
\* similarity scoring.
C8_NoInputIsClientError ==
    (/\ response # NoResponse
     /\ \/ request.file = EmptyUpload
        \/ request.file = NoUpload /\ request.image_url = "")
    => /\ response.status = 400
       /\ response.query_matches = <<>>
       /\ ~response.embedded
       /\ ~response.scored
       /\ response.considered = {}

C8_Witness ==
    /\ response.status = 400
    /\ request.file = EmptyUpload
    /\ request.image_url = "http://img"
    /\ Len(srv.image_index) > 0

\* C9 -- a product with no valid image at build time has the zero vector as
\* its row, is in the result of no request, and takes none of the top_k
\* slots: the result holds top_k products whenever that many can be returned.
C9_ZeroImageProductNeverReturned ==
    /\ srv.present =>
          \A p \in DOMAIN products :
              ZeroValid(p) => srv.product_embeddings[p] = ZeroVec
    /\ Answered =>
          /\ \A p \in Returned : p \in DOMAIN products /\ ~ZeroValid(p)
          /\ Len(Results) >= Smaller(request.top_k, Cardinality(Eligible))

C9_Witness ==
    /\ Answered
    /\ request.threshold <= 0
    /\ request.top_k = 1
    /\ Len(Results) = 1
    /\ \E p \in DOMAIN products :
          /\ ZeroValid(p)
          /\ Len(products[p].images) > 0
          /\ ScoreOf(p) > Results[1].score
          /\ p \in response.considered

\* m is the least (the greatest) of a non-empty list of prices: it is one of
\* them and no number among them is below (above) it
IsMinimum(m, prices) ==
    /\ \E i \in DOMAIN prices : prices[i] = m
    /\ \A i \in DOMAIN prices : prices[i].k = "num" => FloatLe(m, prices[i])
IsMaximum(m, prices) ==
    /\ \E i \in DOMAIN prices : prices[i] = m
    /\ \A i \in DOMAIN prices : prices[i].k = "num" => FloatLe(prices[i], m)

\* C10 -- min_price and max_price of a returned product are the least and
\* the greatest known price of the images listed for it, both None exactly
\* when no listed image has a known price, and the images list is not empty.
C10_PriceRangeOfListedImages ==
    Answered =>
        \A i \in DOMAIN Results :
            LET known == KnownPrices(Results[i].images)
            IN /\ Results[i].images # <<>>
               /\ (known = <<>>) <=> (Results[i].min_price = None)
               /\ (known = <<>>) <=> (Results[i].max_price = None)
               /\ known # <<>> =>
                     /\ IsMinimum(Results[i].min_price, known)
                     /\ IsMaximum(Results[i].max_price, known)

====
